---- MODULE Spec2Model ----
(***************************************************************************)
(* Model of the column imputer of the repository, in its two variants:     *)
(*   src/factory-design-pattern/imputer_factory.py   (prefix F_)           *)
(*   src/strategy-design-pattern/imputer_strategy.py (prefix S_)           *)
(* A caller owns float matrices, builds imputers, and calls fit and        *)
(* transform on them.  Every call is applied to a factory-built and to a   *)
(* strategy-built imputer with the same arguments, so that the two         *)
(* variants can be compared call by call.  A caller may also call the fit  *)
(* and transform methods of a strategy object itself, on its own matrix.   *)
(***************************************************************************)
EXTENDS Integers, Sequences, FiniteSets, TLC

(***************************************************************************)
(* Bounds of the model.                                                    *)
(***************************************************************************)
\* largest number of rows of a caller's matrix
MaxRows == 3
\* largest number of cells (rows times columns) of a caller's matrix
MaxCells == 4
\* widths (numbers of columns) of the caller's matrices
Widths == {1, 2}
\* most transform calls the caller makes in a row on one imputer
MaxTransforms == 2
\* most calls a caller makes of a strategy object's own transform method
MaxDirect == 1

(***************************************************************************)
(* float64 values.  A finite value is n/d * Unit(e), with n/d a fraction   *)
(* in lowest terms, d > 0, and the unit one of three magnitudes:           *)
(*   e = 0: 1;   e = 1: 2^60;   e = 2: the largest finite float64.         *)
(* The values the model adds are whole multiples (a handful at most) of    *)
(* one unit.  For these, float64 addition is exact between values of the   *)
(* same unit, except that a sum beyond the largest finite float overflows  *)
(* to an infinity; and it rounds to the operand of the larger unit between *)
(* values of different units (1 is far less than half the spacing of the   *)
(* floats at 2^60, as 2^60 is at the largest float), which is what makes   *)
(* a float64 sum depend on the order of its terms.  A quotient is rounded  *)
(* once, and distinct fractions here round to distinct floats.             *)
(***************************************************************************)
RECURSIVE Gcd(_, _)
Gcd(a, b) == IF b = 0 THEN a ELSE Gcd(b, a % b)

Abs(a) == IF a < 0 THEN -a ELSE a

\* the float num/den * Unit(e); zero has unit 1
Scaled(num, den, e) ==
    LET g == Gcd(Abs(num), den)
    IN  [k |-> "fin", n |-> num \div g, d |-> den \div g, e |-> IF num = 0 THEN 0 ELSE e]

Fin(num, den) == Scaled(num, den, 0)
Flt(i) == Scaled(i, 1, 0)
\* 2^60 and -2^60
Big    == Scaled(1, 1, 1)
NegBig == Scaled(-1, 1, 1)
\* np.finfo(float).max and np.finfo(float).min
MaxF   == Scaled(1, 1, 2)
MinF   == Scaled(-1, 1, 2)
NaN    == [k |-> "nan",  n |-> 0, d |-> 1, e |-> 0]
PosInf == [k |-> "pinf", n |-> 0, d |-> 1, e |-> 0]
NegInf == [k |-> "ninf", n |-> 0, d |-> 1, e |-> 0]

IsNaN(x) == x.k = "nan"

\* a finite result of magnitude beyond the largest float overflows
Overflow(x) ==
    IF x.e = 2 /\ Abs(x.n) > x.d THEN (IF x.n > 0 THEN PosInf ELSE NegInf) ELSE x

\* float64 addition
FAdd(x, y) ==
    IF IsNaN(x) \/ IsNaN(y) THEN NaN
    ELSE IF x.k = "pinf" THEN (IF y.k = "ninf" THEN NaN ELSE PosInf)
    ELSE IF x.k = "ninf" THEN (IF y.k = "pinf" THEN NaN ELSE NegInf)
    ELSE IF y.k = "pinf" THEN PosInf
    ELSE IF y.k = "ninf" THEN NegInf
    ELSE IF x.e = y.e THEN Overflow(Scaled(x.n * y.d + y.n * x.d, x.d * y.d, x.e))
    ELSE IF x.e > y.e THEN x
    ELSE y

\* float64 division of x by a count c >= 0
FDivCount(x, c) ==
    IF IsNaN(x) THEN NaN
    ELSE IF x.k = "pinf" THEN PosInf
    ELSE IF x.k = "ninf" THEN NegInf
    ELSE IF c = 0 THEN (IF x.n = 0 THEN NaN ELSE IF x.n > 0 THEN PosInf ELSE NegInf)
    ELSE Scaled(x.n, x.d * c, x.e)

\* position of a non-NaN value on the extended real line, by kind
KindRank(x) ==
    CASE x.k = "ninf" -> 0
      [] x.k = "fin"  -> 1
      [] x.k = "pinf" -> 2

\* x < y for finite x and y: within one unit by the fractions, across units
\* by the sign of the one with the larger unit
FinLess(x, y) ==
    IF x.e = y.e THEN x.n * y.d < y.n * x.d
    ELSE IF x.e > y.e THEN x.n < 0
    ELSE y.n > 0

\* float64 comparison x < y (false when either side is NaN)
FLess(x, y) ==
    /\ ~IsNaN(x)
    /\ ~IsNaN(y)
    /\ \/ KindRank(x) < KindRank(y)
       \/ x.k = "fin" /\ y.k = "fin" /\ FinLess(x, y)

\* float64 comparison x == y (false when either side is NaN)
FEq(x, y) == ~IsNaN(x) /\ ~IsNaN(y) /\ x = y

\* the order numpy sorts floats in: NaN after everything else
SortLT(x, y) == FLess(x, y) \/ (IsNaN(y) /\ ~IsNaN(x))

(***************************************************************************)
(* Matrices: a sequence of rows, each a sequence of float64 values.        *)
(***************************************************************************)
NRows(m) == Len(m)
NCols(m) == Len(m[1])
Column(m, j) == [r \in 1..NRows(m) |-> m[r][j]]

RECURSIVE SeqSum(_)
SeqSum(s) == IF s = <<>> THEN Flt(0) ELSE FAdd(SeqSum(SubSeq(s, 1, Len(s) - 1)), s[Len(s)])

CountNotNaN(s) == Cardinality({r \in 1..Len(s) : ~IsNaN(s[r])})

\* np.nanmean(data, axis=0): NaN cells count as 0 in the sum, and the sum is
\* divided by the number of non-NaN cells of the column
nanmeanCol(s) ==
    LET zeroed == [r \in 1..Len(s) |-> IF IsNaN(s[r]) THEN Flt(0) ELSE s[r]]
    IN  FDivCount(SeqSum(zeroed), CountNotNaN(s))

nanmean(m) == [j \in 1..NCols(m) |-> nanmeanCol(Column(m, j))]

\* insertion of x into a sequence sorted by SortLT
RECURSIVE Insert(_, _)
Insert(x, s) ==
    IF s = <<>> THEN <<x>>
    ELSE IF SortLT(x, s[1]) THEN <<x>> \o s
    ELSE <<s[1]>> \o Insert(x, Tail(s))

RECURSIVE SortCells(_)
SortCells(s) == IF s = <<>> THEN <<>> ELSE Insert(s[1], SortCells(Tail(s)))

\* np.nanmedian(data, axis=0): the column is sorted with its NaN cells last;
\* with c non-NaN cells the result is (lo + hi) / 2 of the middle cells
\* (lo = hi for odd c), and NaN when c = 0
nanmedianCol(s) ==
    LET sorted == SortCells(s)
        c == CountNotNaN(s)
        h == c \div 2
        hi == sorted[h + 1]
        lo == IF c % 2 = 1 THEN hi ELSE sorted[h]
    IN  IF c = 0 THEN NaN ELSE FDivCount(FAdd(lo, hi), 2)

nanmedian(m) == [j \in 1..NCols(m) |-> nanmedianCol(Column(m, j))]

\* the order np.unique(axis=0) sorts rows in: field by field, NaN last and
\* two NaN comparing equal
RECURSIVE RowLT(_, _)
RowLT(a, b) ==
    IF a = <<>> THEN FALSE
    ELSE IF SortLT(a[1], b[1]) THEN TRUE
    ELSE IF SortLT(b[1], a[1]) THEN FALSE
    ELSE RowLT(Tail(a), Tail(b))

\* row comparison a == b of np.unique(axis=0): every field equal, NaN != NaN
RowEq(a, b) == \A j \in 1..Len(a) : FEq(a[j], b[j])

RECURSIVE InsertRow(_, _)
InsertRow(x, s) ==
    IF s = <<>> THEN <<x>>
    ELSE IF RowLT(x, s[1]) THEN <<x>> \o s
    ELSE <<s[1]>> \o InsertRow(x, Tail(s))

RECURSIVE SortRows(_)
SortRows(m) == IF m = <<>> THEN <<>> ELSE InsertRow(m[1], SortRows(Tail(m)))

\* np.unique(data, axis=0, return_counts=True): the sorted rows, a new group
\* starting wherever a row differs from the one before it; u is the first
\* row of each group and c the size of each group
RECURSIVE UniqueRuns(_)
UniqueRuns(sorted) ==
    IF sorted = <<>> THEN [u |-> <<>>, c |-> <<>>]
    ELSE IF Len(sorted) = 1 THEN [u |-> sorted, c |-> <<1>>]
    ELSE LET rest == UniqueRuns(Tail(sorted))
         IN  IF RowEq(sorted[1], sorted[2])
             THEN [u |-> <<sorted[1]>> \o Tail(rest.u),
                   c |-> <<rest.c[1] + 1>> \o Tail(rest.c)]
             ELSE [u |-> <<sorted[1]>> \o rest.u, c |-> <<1>> \o rest.c]

unique(m) == UniqueRuns(SortRows(m))

\* c.argmax(): the first index of the largest count
argmax(c) ==
    CHOOSE i \in 1..Len(c) :
        /\ \A j \in 1..Len(c) : c[j] <= c[i]
        /\ \A j \in 1..(i - 1) : c[j] < c[i]

\* np.nan_to_num(d, nan=v) on one cell: NaN becomes v, the infinities become
\* the largest and smallest finite float
nan_to_num(x, v) ==
    IF IsNaN(x) THEN v
    ELSE IF x.k = "pinf" THEN MaxF
    ELSE IF x.k = "ninf" THEN MinF
    ELSE x

\* the loop "for i in range(data.shape[1]): data[:, i] = nan_to_num(...)"
FillColumns(m, fitted) ==
    [r \in 1..NRows(m) |-> [j \in 1..NCols(m) |-> nan_to_num(m[r][j], fitted[j])]]

(***************************************************************************)
(* Python values.  A reference is a heap address, NoneRef for None.  A     *)
(* value that is either None or an array is a record with the flag isNone. *)
(***************************************************************************)
NoneRef == 0
None == [isNone |-> TRUE, v |-> <<>>]
Arr(v) == [isNone |-> FALSE, v |-> v]

\* what a call gave back: the exception it raised ("" for none), and its
\* return value: None, or an object whose contents at return time are val
\* (val is <<>> for an object that is no matrix)
Raised(e) == [raised |-> e, isNone |-> TRUE, val |-> <<>>]
Returned(isNone, val) == [raised |-> "", isNone |-> isNone, val |-> val]
NoCall == [raised |-> "", isNone |-> TRUE, val |-> <<>>]

\* a faulty astype, which C9 must tell from the real one: astype(float,
\* copy=False) on an array that is already float gives back the array itself
astype_nocopy(h, src, dst) == [heap |-> h, ref |-> src]

\* data.astype(float) of the array at src: a new array at the fresh address
\* dst holding the same cells as floats
astype(h, src, dst) == [heap |-> [h EXCEPT ![dst] = h[src]], ref |-> dst]

(***************************************************************************)
(* src/strategy-design-pattern/imputer_strategy.py                         *)
(***************************************************************************)
S_Mean(axis)   == [cls |-> "Mean",   axis |-> axis]
S_Median(axis) == [cls |-> "Median", axis |-> axis]
S_Mode(axis)   == [cls |-> "Mode",   axis |-> axis]
S_NoStrategy   == [cls |-> "",       axis |-> 0]

\* a faulty Mean.fit, which C10 must tell from the real one: np.mean in place
\* of np.nanmean, which sums the NaN cells too and divides by the row count
S_Mean_fit_mean(self, data) ==
    IF self.axis = 0
    THEN Arr([j \in 1..NCols(data) |->
                 FDivCount(SeqSum(Column(data, j)), NRows(data))])
    ELSE None

S_Mean_fit(self, data) ==
    IF self.axis = 0 THEN Arr(nanmean(data)) ELSE None

S_Median_fit(self, data) ==
    IF self.axis = 0 THEN Arr(nanmedian(data)) ELSE None

S_Mode_fit(self, data) ==
    IF self.axis = 0
    THEN LET uc == unique(data) IN Arr(uc.u[argmax(uc.c)])
    ELSE None

\* the body shared by the three transform methods for axis 0: data.shape of
\* None raises AttributeError, fitted_data[i] of None raises TypeError,
\* otherwise the array at data is filled in place and returned
S_fill_in_place(h, data, fitted) ==
    IF data = NoneRef THEN [out |-> Raised("AttributeError"), heap |-> h]
    ELSE IF fitted.isNone THEN [out |-> Raised("TypeError"), heap |-> h]
    ELSE LET filled == FillColumns(h[data], fitted.v)
         IN  [out |-> Returned(FALSE, filled), heap |-> [h EXCEPT ![data] = filled]]

S_Mean_transform(self, h, data, fitted) ==
    IF self.axis = 0 THEN S_fill_in_place(h, data, fitted)
    ELSE [out |-> Returned(TRUE, <<>>), heap |-> h]

S_Median_transform(self, h, data, fitted) ==
    IF self.axis = 0 THEN S_fill_in_place(h, data, fitted)
    ELSE [out |-> Returned(TRUE, <<>>), heap |-> h]

S_Mode_transform(self, h, data, fitted) ==
    IF self.axis = 0 THEN S_fill_in_place(h, data, fitted)
    ELSE [out |-> Returned(TRUE, <<>>), heap |-> h]

\* self._strategy.fit(data) and self._strategy.transform(data, fitted_data)
S_strategy_fit(strategy, data) ==
    CASE strategy.cls = "Mean"   -> S_Mean_fit(strategy, data)
      [] strategy.cls = "Median" -> S_Median_fit(strategy, data)
      [] strategy.cls = "Mode"   -> S_Mode_fit(strategy, data)

S_strategy_transform(strategy, h, data, fitted) ==
    CASE strategy.cls = "Mean"   -> S_Mean_transform(strategy, h, data, fitted)
      [] strategy.cls = "Median" -> S_Median_transform(strategy, h, data, fitted)
      [] strategy.cls = "Mode"   -> S_Mode_transform(strategy, h, data, fitted)

\* an imputer object; exists is FALSE while no object has been constructed
NoImputer == [exists |-> FALSE, strategy |-> S_NoStrategy, data |-> NoneRef, fitted |-> None]

\* Imputer.__init__(strategy, axis)
S_Imputer_init(strategy, axis) ==
    IF strategy = "mean"
    THEN [out |-> Returned(FALSE, <<>>),
          obj |-> [exists |-> TRUE, strategy |-> S_Mean(axis), data |-> NoneRef, fitted |-> None]]
    ELSE IF strategy = "median"
    THEN [out |-> Returned(FALSE, <<>>),
          obj |-> [exists |-> TRUE, strategy |-> S_Median(axis), data |-> NoneRef, fitted |-> None]]
    ELSE IF strategy = "mode"
    THEN [out |-> Returned(FALSE, <<>>),
          obj |-> [exists |-> TRUE, strategy |-> S_Mode(axis), data |-> NoneRef, fitted |-> None]]
    ELSE [out |-> Raised("RuntimeError"), obj |-> NoImputer]

\* Imputer.fit(data): src is the caller's array, dst the address of the copy
S_Imputer_fit(self, h, src, dst) ==
    LET copy == astype(h, src, dst)
    IN  [out  |-> Returned(FALSE, <<>>),
         obj  |-> [self EXCEPT !.data = copy.ref,
                               !.fitted = S_strategy_fit(self.strategy, copy.heap[copy.ref])],
         heap |-> copy.heap]

\* Imputer.transform()
S_Imputer_transform(self, h) ==
    S_strategy_transform(self.strategy, h, self.data, self.fitted)

(***************************************************************************)
(* src/factory-design-pattern/imputer_factory.py                           *)
(***************************************************************************)
F_Mean(axis)   == [cls |-> "Mean",   axis |-> axis]
F_Median(axis) == [cls |-> "Median", axis |-> axis]
F_Mode(axis)   == [cls |-> "Mode",   axis |-> axis]

F_Mean_fit(self, data) ==
    IF self.axis = 0 THEN Arr(nanmean(data)) ELSE None

\* a faulty Median.fit, which C8 must tell from the real one: np.nanmean
\* pasted in place of np.nanmedian in the factory file only
F_Median_fit_mean(self, data) ==
    IF self.axis = 0 THEN Arr(nanmean(data)) ELSE None

F_Median_fit(self, data) ==
    IF self.axis = 0 THEN Arr(nanmedian(data)) ELSE None

F_Mode_fit(self, data) ==
    IF self.axis = 0
    THEN LET uc == unique(data) IN Arr(uc.u[argmax(uc.c)])
    ELSE None

F_fill_in_place(h, data, fitted) ==
    IF data = NoneRef THEN [out |-> Raised("AttributeError"), heap |-> h]
    ELSE IF fitted.isNone THEN [out |-> Raised("TypeError"), heap |-> h]
    ELSE LET filled == FillColumns(h[data], fitted.v)
         IN  [out |-> Returned(FALSE, filled), heap |-> [h EXCEPT ![data] = filled]]

F_Mean_transform(self, h, data, fitted) ==
    IF self.axis = 0 THEN F_fill_in_place(h, data, fitted)
    ELSE [out |-> Returned(TRUE, <<>>), heap |-> h]

F_Median_transform(self, h, data, fitted) ==
    IF self.axis = 0 THEN F_fill_in_place(h, data, fitted)
    ELSE [out |-> Returned(TRUE, <<>>), heap |-> h]

F_Mode_transform(self, h, data, fitted) ==
    IF self.axis = 0 THEN F_fill_in_place(h, data, fitted)
    ELSE [out |-> Returned(TRUE, <<>>), heap |-> h]

F_strategy_fit(strategy, data) ==
    CASE strategy.cls = "Mean"   -> F_Mean_fit(strategy, data)
      [] strategy.cls = "Median" -> F_Median_fit(strategy, data)
      [] strategy.cls = "Mode"   -> F_Mode_fit(strategy, data)

F_strategy_transform(strategy, h, data, fitted) ==
    CASE strategy.cls = "Mean"   -> F_Mean_transform(strategy, h, data, fitted)
      [] strategy.cls = "Median" -> F_Median_transform(strategy, h, data, fitted)
      [] strategy.cls = "Mode"   -> F_Mode_transform(strategy, h, data, fitted)

\* Imputer.__init__(strategy)
F_Imputer_init(strategy) ==
    [exists |-> TRUE, strategy |-> strategy, data |-> NoneRef, fitted |-> None]

F_Imputer_fit(self, h, src, dst) ==
    LET copy == astype(h, src, dst)
    IN  [out  |-> Returned(FALSE, <<>>),
         obj  |-> [self EXCEPT !.data = copy.ref,
                               !.fitted = F_strategy_fit(self.strategy, copy.heap[copy.ref])],
         heap |-> copy.heap]

F_Imputer_transform(self, h) ==
    F_strategy_transform(self.strategy, h, self.data, self.fitted)

\* the values of the enum Strategy
F_Strategy_values == {"mean", "median", "mode", "unknown"}

\* Strategy(value): the member with that value, or ValueError
F_Strategy(value) ==
    IF value \in F_Strategy_values
    THEN [raised |-> "", member |-> value]
    ELSE [raised |-> "ValueError", member |-> ""]

\* a faulty create_imputer_strategy, which C3 must tell from the real one:
\* the "if strategy is Strategy.unknown: raise" test left out
create_imputer_strategy_unchecked(strategy, axis) ==
    LET looked == F_Strategy(strategy)
        member == IF looked.raised = "ValueError" THEN "unknown" ELSE looked.member
    IN  IF member = "mean" THEN [out |-> Returned(FALSE, <<>>), strategy |-> F_Mean(axis)]
        ELSE IF member = "median" THEN [out |-> Returned(FALSE, <<>>), strategy |-> F_Median(axis)]
        ELSE [out |-> Returned(FALSE, <<>>), strategy |-> F_Mode(axis)]

\* create_imputer_strategy(strategy, axis)
create_imputer_strategy(strategy, axis) ==
    LET looked == F_Strategy(strategy)
        member == IF looked.raised = "ValueError" THEN "unknown" ELSE looked.member
    IN  IF member = "unknown" THEN [out |-> Raised("RuntimeError"), strategy |-> S_NoStrategy]
        ELSE IF member = "mean" THEN [out |-> Returned(FALSE, <<>>), strategy |-> F_Mean(axis)]
        ELSE IF member = "median" THEN [out |-> Returned(FALSE, <<>>), strategy |-> F_Median(axis)]
        ELSE [out |-> Returned(FALSE, <<>>), strategy |-> F_Mode(axis)]

\* Imputer(create_imputer_strategy(strategy, axis)), as in the __main__ block
F_construct(strategy, axis) ==
    LET made == create_imputer_strategy(strategy, axis)
    IN  IF made.out.raised # "" THEN [out |-> made.out, obj |-> NoImputer]
        ELSE [out |-> Returned(FALSE, <<>>), obj |-> F_Imputer_init(made.strategy)]

(***************************************************************************)
(* The caller.  Caller i owns one matrix, at heap address i, and one       *)
(* imputer of each variant; the imputers' own copies live at F_buf(i) and  *)
(* S_buf(i).                                                               *)
(***************************************************************************)
VARIABLES
    heap,   \* address -> matrix (<<>> where nothing is allocated)
    imp,    \* caller -> [f: the factory-built imputer, s: the strategy-built one]
    asked,  \* caller -> the strategy string and axis of its latest constructor call
    src,    \* caller -> address of the array passed to its imputers' latest fit
    last,   \* caller -> the latest call on its imputers, what it gave back, and
            \* how many times in a row that call has been made
    passed, \* caller -> the cells the array passed to its imputers' latest fit
            \* held when it was passed (<<>> before any fit)
    direct  \* caller -> how many times it has called a strategy object's
            \* transform itself, and what the latest such call gave back

vars == <<heap, imp, asked, src, last, passed, direct>>

F_buf(i) == 10 + i
S_buf(i) == 20 + i
Addrs(ids) == ids \cup {F_buf(i) : i \in ids} \cup {S_buf(i) : i \in ids}

\* the cells of the caller's matrices
FiniteCells == {Flt(0), Flt(1), Big, NegBig}
Cells == FiniteCells \cup {NaN, PosInf, NegInf}
Shapes == {sh \in (1..MaxRows) \X Widths : sh[1] * sh[2] <= MaxCells}
Matrices == UNION {[1..sh[1] -> [1..sh[2] -> Cells]] : sh \in Shapes}
\* the matrices of the two-caller specification: one column of two cells,
\* the first missing or 1, the second 1
TinyMatrices == {m \in [1..2 -> [1..1 -> {NaN, Flt(1)}]] : m[2][1] = Flt(1)}

\* the strategy strings and axes the caller tries
StrategyStrings == {"mean", "median", "mode", "unknown", "max"}
Axes == {0, 1}

Ids == DOMAIN imp

InitWith(ids, pool) ==
    /\ \E arrays \in [ids -> pool] :
          heap = [a \in Addrs(ids) |-> IF a \in ids THEN arrays[a] ELSE <<>>]
    /\ imp = [i \in ids |-> [f |-> NoImputer, s |-> NoImputer]]
    /\ asked = [i \in ids |-> [strategy |-> "", axis |-> 0]]
    /\ src = [i \in ids |-> NoneRef]
    /\ last = [i \in ids |-> [op |-> "none", run |-> 0, f |-> NoCall, s |-> NoCall]]
    /\ passed = [i \in ids |-> <<>>]
    /\ direct = [i \in ids |-> [n |-> 0, out |-> NoCall]]

\* one caller, any matrix
Init == InitWith({1}, Matrices)
\* two callers, each with a small matrix
InitTwo == InitWith({1, 2}, TinyMatrices)

\* caller i constructs its two imputers from the same strategy string and axis
Construct(i, strategy, axis) ==
    /\ ~imp[i].f.exists
    /\ ~imp[i].s.exists
    /\ LET f == F_construct(strategy, axis)
           s == S_Imputer_init(strategy, axis)
       IN  /\ imp' = [imp EXCEPT ![i] = [f |-> f.obj, s |-> s.obj]]
           /\ last' = [last EXCEPT ![i] = [op |-> "init", run |-> 1, f |-> f.out, s |-> s.out]]
    /\ asked' = [asked EXCEPT ![i] = [strategy |-> strategy, axis |-> axis]]
    /\ UNCHANGED <<heap, src, passed, direct>>

\* caller i calls fit(heap[j]) on its two imputers
Fit(i, j) ==
    /\ imp[i].f.exists \/ imp[i].s.exists
    /\ LET f == IF imp[i].f.exists
                THEN F_Imputer_fit(imp[i].f, heap, j, F_buf(i))
                ELSE [out |-> NoCall, obj |-> imp[i].f, heap |-> heap]
           s == IF imp[i].s.exists
                THEN S_Imputer_fit(imp[i].s, f.heap, j, S_buf(i))
                ELSE [out |-> NoCall, obj |-> imp[i].s, heap |-> f.heap]
       IN  /\ heap' = s.heap
           /\ imp' = [imp EXCEPT ![i] = [f |-> f.obj, s |-> s.obj]]
           /\ last' = [last EXCEPT ![i] = [op |-> "fit", run |-> 1, f |-> f.out, s |-> s.out]]
    /\ src' = [src EXCEPT ![i] = j]
    /\ passed' = [passed EXCEPT ![i] = heap[j]]
    /\ UNCHANGED <<asked, direct>>

\* caller i calls transform() on its two imputers
Transform(i) ==
    /\ imp[i].f.exists \/ imp[i].s.exists
    /\ last[i].op = "transform" => last[i].run < MaxTransforms
    /\ LET f == IF imp[i].f.exists
                THEN F_Imputer_transform(imp[i].f, heap)
                ELSE [out |-> NoCall, heap |-> heap]
           s == IF imp[i].s.exists
                THEN S_Imputer_transform(imp[i].s, f.heap)
                ELSE [out |-> NoCall, heap |-> f.heap]
       IN  /\ heap' = s.heap
           /\ last' = [last EXCEPT ![i] =
                  [op |-> "transform",
                   run |-> IF last[i].op = "transform" THEN last[i].run + 1 ELSE 1,
                   f |-> f.out, s |-> s.out]]
    /\ UNCHANGED <<imp, asked, src, passed, direct>>

\* caller i takes the strategy object of its imputer of variant v and calls
\* the object's own methods on its own array:
\*     stats = strategy.fit(arr); strategy.transform(arr, stats)
\* transform is handed the caller's array itself, and writes into it
StrategyTransform(i, v) ==
    /\ imp[i][v].exists
    /\ direct[i].n < MaxDirect
    /\ LET strategy == imp[i][v].strategy
           stats == IF v = "f" THEN F_strategy_fit(strategy, heap[i])
                    ELSE S_strategy_fit(strategy, heap[i])
           r == IF v = "f" THEN F_strategy_transform(strategy, heap, i, stats)
                ELSE S_strategy_transform(strategy, heap, i, stats)
       IN  /\ heap' = r.heap
           /\ direct' = [direct EXCEPT ![i] = [n |-> @.n + 1, out |-> r.out]]
    /\ UNCHANGED <<imp, asked, src, last, passed>>

DoConstruct ==
    \E i \in Ids, strategy \in StrategyStrings, axis \in Axes : Construct(i, strategy, axis)
DoFit == \E i \in Ids, j \in Ids : Fit(i, j)
DoTransform == \E i \in Ids : Transform(i)
DoStrategyTransform == \E i \in Ids, v \in {"f", "s"} : StrategyTransform(i, v)

Next == DoConstruct \/ DoFit \/ DoTransform \/ DoStrategyTransform

Spec == Init /\ [][Next]_vars
SpecTwo == InitTwo /\ [][Next]_vars

(***************************************************************************)
(* Vocabulary of the properties.                                           *)
(***************************************************************************)
Variants == {"f", "s"}
ValidStrategies == {"mean", "median", "mode"}
Classes == {"Mean", "Median", "Mode"}

\* the matrix that caller i's imputers were last fitted on, as it was when
\* it was passed to fit
Input(i) == passed[i]

\* imputer v of caller i exists, works on axis 0 and has been fitted
FittedOnAxis0(i, v) ==
    /\ imp[i][v].exists
    /\ imp[i][v].strategy.axis = 0
    /\ src[i] # NoneRef
    /\ imp[i][v].data # NoneRef

HasNaN(m) == \E r \in 1..Len(m) : \E j \in 1..Len(m[r]) : IsNaN(m[r][j])
AllMissing(s) == \A r \in 1..Len(s) : IsNaN(s[r])
SomeColumnAllMissing(m) == \E j \in 1..NCols(m) : AllMissing(Column(m, j))

\* the non-missing cells of a column, in row order
Present(s) == SelectSeq(s, LAMBDA x : ~IsNaN(x))

\* reference: the float64 sum of the non-missing cells of a column, added in
\* row order, divided by their count
ArithMean(s) == FDivCount(SeqSum(Present(s)), Len(Present(s)))

\* reference: the most frequent non-missing value of a column, the smallest
\* of them on a tie
ColumnMode(s) ==
    LET vals == {s[r] : r \in {q \in 1..Len(s) : ~IsNaN(s[q])}}
        Count(x) == Cardinality({r \in 1..Len(s) : s[r] = x})
        best == {x \in vals : \A y \in vals : Count(y) <= Count(x)}
    IN  CHOOSE x \in best : \A y \in best : ~FLess(y, x)

\* the rows of m in the order p
PermuteRows(m, p) == [r \in 1..Len(m) |-> m[p[r]]]

(***************************************************************************)
(* C1: with axis 0, what fit(matrix).transform() returns has the shape of  *)
(* the input, holds the fitted statistic of column j in every cell of      *)
(* column j that was missing, and holds the input value in every other     *)
(* cell.                                                                   *)
(***************************************************************************)
C1_TransformFillsOnlyMissing ==
    \A i \in Ids : \A v \in Variants :
        (FittedOnAxis0(i, v) /\ last[i].op = "transform" /\ last[i][v].raised = "") =>
            LET out == last[i][v]
                in == Input(i)
            IN  /\ ~out.isNone
                /\ Len(out.val) = Len(in)
                /\ \A r \in 1..Len(in) :
                      /\ Len(out.val[r]) = Len(in[r])
                      /\ \A j \in 1..Len(in[r]) :
                            out.val[r][j] = IF IsNaN(in[r][j])
                                            THEN imp[i][v].fitted.v[j]
                                            ELSE in[r][j]

(***************************************************************************)
(* C2: transform on an imputer that was never fitted raises, whatever the  *)
(* strategy and the variant; transform on a fitted imputer does not raise. *)
(***************************************************************************)
C2_TransformBeforeFitRaises ==
    \A i \in Ids : \A v \in Variants :
        (imp[i][v].exists /\ last[i].op = "transform") =>
            IF src[i] = NoneRef
            THEN last[i][v].raised # ""
            ELSE last[i][v].raised = ""

(***************************************************************************)
(* C3: a strategy string other than mean, median or mode is rejected by    *)
(* the constructor call: the call raises, no imputer exists afterwards,    *)
(* and so no fit or transform ever runs for such a string.                 *)
(***************************************************************************)
C3_UnknownStrategyRejected ==
    \A i \in Ids : \A v \in Variants :
        /\ (last[i].op # "none" /\ asked[i].strategy \notin ValidStrategies) =>
              /\ ~imp[i][v].exists
              /\ last[i].op = "init"
              /\ last[i][v].raised # ""
        /\ imp[i][v].exists =>
              /\ asked[i].strategy \in ValidStrategies
              /\ imp[i][v].strategy.cls \in Classes
        /\ last[i].op \in {"fit", "transform"} => asked[i].strategy \in ValidStrategies

C3_Witness ==
    \E i \in Ids :
        /\ last[i].op = "init"
        /\ asked[i].strategy = "unknown"
        /\ \A v \in Variants : last[i][v].raised = "RuntimeError" /\ ~imp[i][v].exists

(***************************************************************************)
(* C4: an imputer built with an axis other than 0 never completes fit or   *)
(* transform by returning normally with no result: the call raises.        *)
(***************************************************************************)
C4_OtherAxisRejected ==
    \A i \in Ids : \A v \in Variants :
        (imp[i][v].exists /\ imp[i][v].strategy.axis # 0) =>
            /\ last[i].op = "fit" =>
                  ~(last[i][v].raised = "" /\ imp[i][v].fitted.isNone)
            /\ last[i].op = "transform" =>
                  ~(last[i][v].raised = "" /\ last[i][v].isNone)

(***************************************************************************)
(* C5: with axis 0, fit on a matrix that has a column whose cells are all  *)
(* missing raises; it never leaves a missing value in the statistic vector *)
(* for that column.                                                        *)
(***************************************************************************)
C5_EmptyColumnRaises ==
    \A i \in Ids : \A v \in Variants :
        (FittedOnAxis0(i, v) /\ last[i].op = "fit" /\ SomeColumnAllMissing(Input(i))) =>
            /\ last[i][v].raised # ""
            /\ \A j \in 1..NCols(Input(i)) :
                  AllMissing(Column(Input(i), j)) => ~IsNaN(imp[i][v].fitted.v[j])

(***************************************************************************)
(* C6: with the mode strategy and axis 0, the statistic of each column     *)
(* that has a non-missing cell is the most frequent non-missing value of   *)
(* that column, the smallest such value on a tie.                          *)
(***************************************************************************)
C6_ModeIsColumnwise ==
    \A i \in Ids : \A v \in Variants :
        (FittedOnAxis0(i, v) /\ imp[i][v].strategy.cls = "Mode") =>
            \A j \in 1..NCols(Input(i)) :
                ~AllMissing(Column(Input(i), j)) =>
                    imp[i][v].fitted.v[j] = ColumnMode(Column(Input(i), j))

(***************************************************************************)
(* C7: once fitted, a transform leaves the fitted statistic vector as it   *)
(* was, and a transform that follows a transform returns exactly what the  *)
(* one before it returned and changes no cell of that result.              *)
(***************************************************************************)
C7_RepeatedTransformSame ==
    [][\A i \in Ids : \A v \in Variants :
          (imp[i][v].exists /\ src[i] # NoneRef /\ last'[i].op = "transform") =>
              /\ imp'[i][v].fitted = imp[i][v].fitted
              /\ last[i].op = "transform" =>
                    /\ last'[i][v] = last[i][v]
                    /\ heap'[imp[i][v].data] = heap[imp[i][v].data]]_vars

(***************************************************************************)
(* C8: driven by the same calls, the factory-built and the strategy-built  *)
(* imputer agree at every step: both raise the same error or both return   *)
(* equal values, and they hold equal statistic vectors and equal matrices. *)
(***************************************************************************)
C8_VariantsAgree ==
    \A i \in Ids :
        /\ last[i].f = last[i].s
        /\ imp[i].f.exists = imp[i].s.exists
        /\ imp[i].f.strategy = imp[i].s.strategy
        /\ imp[i].f.fitted = imp[i].s.fitted
        /\ (imp[i].f.data = NoneRef) = (imp[i].s.data = NoneRef)
        /\ imp[i].f.data # NoneRef => heap[imp[i].f.data] = heap[imp[i].s.data]

C8_Witness ==
    \E i \in Ids :
        /\ imp[i].f.exists /\ imp[i].s.exists
        /\ imp[i].f.strategy.cls = "Median"
        /\ FittedOnAxis0(i, "f")
        /\ last[i].op = "transform"
        /\ HasNaN(Input(i))
        /\ last[i].f.raised = "" /\ ~last[i].f.isNone
        /\ last[i].f.val # Input(i)
        /\ last[i].s.val = last[i].f.val

(***************************************************************************)
(* C9, as stated: with two callers interleaving their calls, no call of    *)
(* fit or transform changes a caller's matrix, and every fitted imputer    *)
(* holds the statistic vector and the matrix that its own calls on its own *)
(* input alone give.  (The amended statement follows it.)                  *)
(***************************************************************************)
AloneFitted(i, v) ==
    IF v = "f" THEN F_strategy_fit(imp[i][v].strategy, Input(i))
    ELSE S_strategy_fit(imp[i][v].strategy, Input(i))

\* m after n transform calls with the statistic vector fitted
RECURSIVE FillTimes(_, _, _)
FillTimes(m, fitted, n) ==
    IF n = 0 THEN m ELSE FillColumns(FillTimes(m, fitted, n - 1), fitted)

AloneData(i, v) ==
    IF last[i].op = "transform" /\ imp[i][v].strategy.axis = 0
    THEN FillTimes(Input(i), AloneFitted(i, v).v, last[i].run)
    ELSE Input(i)

ImputersAsAlone ==
    \A i \in Ids : \A v \in Variants :
        (imp[i][v].exists /\ imp[i][v].data # NoneRef) =>
            /\ imp[i][v].fitted = AloneFitted(i, v)
            /\ heap[imp[i][v].data] = AloneData(i, v)
            /\ (last[i].op = "transform" /\ ~last[i][v].isNone) =>
                  last[i][v].val = AloneData(i, v)

StrategyTransformBy(j) ==
    /\ direct'[j].n = direct[j].n + 1
    /\ UNCHANGED <<imp, asked, src, last, passed>>
    /\ \A k \in Ids \ {j} : direct'[k] = direct[k]

KeepsOrder(m, p, j) == Present(Column(PermuteRows(m, p), j)) = Present(Column(m, j))

\* Mean.fit of variant v on the rows of m in the order p
MeanFitPermuted(i, v, m, p) ==
    IF v = "f" THEN F_Mean_fit(imp[i][v].strategy, PermuteRows(m, p))
    ELSE S_Mean_fit(imp[i][v].strategy, PermuteRows(m, p))

====
